---- MODULE Spec2Model ----
(***************************************************************************)
(* Model of the error-annotation library lib_errors.                       *)
(*                                                                         *)
(* The heap is a sequence of error values; an error is referred to by its  *)
(* index, 0 is the nil error.  A Go string is a sequence of chunks (TLA+   *)
(* strings); a data key is spelled byte by byte, so that key[1] is its     *)
(* first byte.  An interface{} value is a (dynamic type, value) pair.      *)
(***************************************************************************)
EXTENDS Integers, Sequences, FiniteSets, TLC

VARIABLES heap, last

vars == <<heap, last>>

----------------------------------------------------------------------------
(* Bounds of the model *)

\* most error values ever allocated besides the package's sentinel
MaxNodes == 3

\* most error values ever allocated in the runs that set and read data
MaxDataNodes == 2

\* most error values ever allocated in the runs that read joined graphs
MaxGraphNodes == 5

----------------------------------------------------------------------------
(* Values *)

Nil == 0

\* var errNilFlag = fmt.Errorf("nil flag"): the first value of the heap
errNilFlag == 1

keyPrefix == "_"

msgKey == <<"_", "m", "s", "g">>

stackKey == <<"_", "s", "t", "a", "c", "k">>

abbrStackKey == <<"_", "a", "b", "b", "r", "s", "t", "k">>

\* interface{}: a dynamic type and a value
Iface(t, v) == [t |-> t, v |-> v]

NilIface == Iface("nil", <<>>)

\* KVPairs: a Go map is nil or a finite function
NilMap == [isNil |-> TRUE, kv |-> <<>>]

MakeMap(f) == [isNil |-> FALSE, kv |-> f]

EmptyMap == MakeMap(<<>>)

\* m[k] = v on a non-nil map
MapSet(m, k, v) ==
    MakeMap([x \in (DOMAIN m.kv) \cup {k} |-> IF x = k THEN v ELSE m.kv[x]])

\* delete(m, k)
MapDel(m, k) == MakeMap([x \in (DOMAIN m.kv) \ {k} |-> m.kv[x]])

\* v, ok := m[k]; reading a nil map finds nothing
MapHas(m, k) == k \in DOMAIN m.kv

MapGet(m, k) == IF MapHas(m, k) THEN m.kv[k] ELSE NilIface

\* the elements of a sequence
Range(s) == {s[i] : i \in DOMAIN s}

\* s[:n]
Prefix(s, n) == SubSeq(s, 1, n)

----------------------------------------------------------------------------
(* Error values *)

\* type Basic struct { error; data KVPairs }
MkBasic(err, data) ==
    [kind |-> "basic", err |-> err, errs |-> <<>>, text |-> <<>>, data |-> data]

\* an error of another package without Unwrap, such as io.EOF
MkPlain(text) ==
    [kind |-> "plain", err |-> Nil, errs |-> <<>>, text |-> text, data |-> NilMap]

\* an error of another package with Unwrap() error, such as fmt's wrapError
MkWrapper(err, text) ==
    [kind |-> "wrapper", err |-> err, errs |-> <<>>, text |-> text, data |-> NilMap]

\* the value of errors.Join: Unwrap() []error
MkJoin(errs) ==
    [kind |-> "join", err |-> Nil, errs |-> errs, text |-> <<>>, data |-> NilMap]

Ids(h) == 1..Len(h)

\* does the value h[n] itself have the methods of the target type
Implements(h, n, target) ==
    CASE target = "Wrapper"     -> h[n].kind \in {"basic", "wrapper"}
      [] target = "StackTracer" -> h[n].kind = "basic"
      [] target = "DataError"   -> h[n].kind = "basic"
      [] target = "Basic"       -> h[n].kind = "basic"
      [] OTHER                  -> FALSE

\* As: the first error of err's tree (pre-order, depth-first) that matches the
\* target type, or Nil
RECURSIVE As(_, _, _)
RECURSIVE AsMulti(_, _, _, _)
As(h, err, target) ==
    IF err = Nil THEN Nil
    ELSE IF Implements(h, err, target) THEN err
    ELSE IF h[err].kind \in {"basic", "wrapper"} THEN As(h, h[err].err, target)
    ELSE IF h[err].kind = "join" THEN AsMulti(h, h[err].errs, 1, target)
    ELSE Nil

AsMulti(h, errs, i, target) ==
    IF i > Len(errs) THEN Nil
    ELSE LET found == As(h, errs[i], target)
         IN  IF found # Nil THEN found ELSE AsMulti(h, errs, i + 1, target)

----------------------------------------------------------------------------
(* Stack capture and the merge heuristic *)

\* callers(level): the program counters of the calling goroutine, innermost
\* first, without the frame of the function that asked and level frames above it
callers(level, frames) == SubSeq(frames, level + 2, Len(frames))

\* func (e *Basic) StackTrace() StackTrace
RECURSIVE StackTrace(_, _)

\* StackTrace that returns an abbreviated stack of the node like a full one
StackTrace_abbrToo(h, e) ==
    IF MapHas(h[e].data, stackKey) THEN MapGet(h[e].data, stackKey).v
    ELSE IF MapHas(h[e].data, abbrStackKey) THEN MapGet(h[e].data, abbrStackKey).v
    ELSE IF h[e].err = Nil THEN <<>>
    ELSE IF h[h[e].err].kind \in {"basic", "wrapper"}
         THEN LET be == As(h, h[e].err, "Basic")
              IN  IF be # Nil THEN StackTrace(h, be) ELSE <<>>
    ELSE <<>>

StackTrace(h, e) ==
    IF MapHas(h[e].data, stackKey) THEN MapGet(h[e].data, stackKey).v
    ELSE IF h[e].err = Nil THEN <<>>
    ELSE IF h[h[e].err].kind \in {"basic", "wrapper"}
         THEN LET be == As(h, h[e].err, "Basic")
              IN  IF be # Nil THEN StackTrace(h, be) ELSE <<>>
    ELSE <<>>

\* the loop with i left at the number of frames compared when it runs to the end
RECURSIVE scanFrames_countAll(_, _, _)
scanFrames_countAll(outer, inner, i) ==
    IF i >= Len(outer)
    THEN [i |-> Len(outer), foundDiff |-> FALSE, panic |-> FALSE]
    ELSE IF Len(inner) - i < 1
    THEN [i |-> i, foundDiff |-> FALSE, panic |-> TRUE]
    ELSE IF outer[Len(outer) - i] # inner[Len(inner) - i]
    THEN [i |-> i, foundDiff |-> TRUE, panic |-> FALSE]
    ELSE scanFrames_countAll(outer, inner, i + 1)

\* the loop of useAbbreviatedStack: i counts frames from the outermost end
RECURSIVE scanFrames(_, _, _)
scanFrames(outer, inner, i) ==
    IF i >= Len(outer)
    THEN [i |-> IF Len(outer) = 0 THEN 0 ELSE Len(outer) - 1,
          foundDiff |-> FALSE, panic |-> FALSE]
    ELSE IF Len(inner) - i < 1
    THEN [i |-> i, foundDiff |-> FALSE, panic |-> TRUE]
    ELSE IF outer[Len(outer) - i] # inner[Len(inner) - i]
    THEN [i |-> i, foundDiff |-> TRUE, panic |-> FALSE]
    ELSE scanFrames(outer, inner, i + 1)

\* useAbbreviatedStack that never abbreviates
useAbbreviatedStack_never(h, err, s) ==
    LET st == As(h, err, "StackTracer")
    IN  IF st = Nil THEN [panic |-> FALSE, abbr |-> FALSE, stk |-> s]
        ELSE [panic |-> scanFrames(s, StackTrace(h, st), 0).panic,
              abbr |-> FALSE, stk |-> s]

\* useAbbreviatedStack that marks the capture abbreviated without cutting it
useAbbreviatedStack_keepAll(h, err, s) ==
    LET st == As(h, err, "StackTracer")
    IN  IF st = Nil THEN [panic |-> FALSE, abbr |-> FALSE, stk |-> s]
        ELSE LET r == scanFrames(s, StackTrace(h, st), 0)
             IN  IF r.panic THEN [panic |-> TRUE, abbr |-> FALSE, stk |-> s]
                 ELSE IF r.i = 0 THEN [panic |-> FALSE, abbr |-> FALSE, stk |-> s]
                 ELSE [panic |-> FALSE, abbr |-> TRUE, stk |-> s]

\* useAbbreviatedStack that drops every shared frame after a mismatch
useAbbreviatedStack_dropShared(h, err, s) ==
    LET st == As(h, err, "StackTracer")
    IN  IF st = Nil THEN [panic |-> FALSE, abbr |-> FALSE, stk |-> s]
        ELSE LET r == scanFrames(s, StackTrace(h, st), 0)
             IN  IF r.panic THEN [panic |-> TRUE, abbr |-> FALSE, stk |-> s]
                 ELSE IF r.i = 0 THEN [panic |-> FALSE, abbr |-> FALSE, stk |-> s]
                 ELSE [panic |-> FALSE, abbr |-> TRUE, stk |-> Prefix(s, Len(s) - r.i)]

\* func useAbbreviatedStack(err error, s *stack) (bool, *stack)
useAbbreviatedStack(h, err, s) ==
    LET st == As(h, err, "StackTracer")
    IN  IF st = Nil THEN [panic |-> FALSE, abbr |-> FALSE, stk |-> s]
        ELSE LET r == scanFrames(s, StackTrace(h, st), 0)
             IN  IF r.panic THEN [panic |-> TRUE, abbr |-> FALSE, stk |-> s]
                 ELSE IF r.i = 0 THEN [panic |-> FALSE, abbr |-> FALSE, stk |-> s]
                 ELSE IF r.i = 1 \/ ~r.foundDiff
                 THEN [panic |-> FALSE, abbr |-> TRUE, stk |-> Prefix(s, Len(s) - r.i)]
                 ELSE [panic |-> FALSE, abbr |-> TRUE, stk |-> Prefix(s, Len(s) - r.i + 1)]

----------------------------------------------------------------------------
(* Messages *)

IsVerb(chunk) == chunk \in {"%s", "%v", "%w"}

\* fmt.Sprintf on chunked strings: each verb takes the next operand; %w is a
\* bad verb outside fmt.Errorf and is written as %!w(operand)
RECURSIVE Sprintf(_, _)
Sprintf(format, args) ==
    IF format = <<>>
    THEN IF args = <<>> THEN <<>> ELSE <<"%!(EXTRA)">>
    ELSE IF IsVerb(Head(format))
    THEN IF args = <<>>
         THEN <<"%!(MISSING)">> \o Sprintf(Tail(format), args)
         ELSE IF Head(format) = "%w"
         THEN <<"%!w(">> \o Head(args) \o <<")">> \o Sprintf(Tail(format), Tail(args))
         ELSE Head(args) \o Sprintf(Tail(format), Tail(args))
    ELSE <<Head(format)>> \o Sprintf(Tail(format), args)

\* formatMsg that formats also when there are no operands
formatMsg_alwaysSprintf(format, args) == Sprintf(format, args)

\* func formatMsg(format string, args ...interface{}) string
formatMsg(format, args) ==
    IF Len(args) <= 0 THEN format ELSE Sprintf(format, args)

----------------------------------------------------------------------------
(* Data of one node *)

\* func (e *Basic) isReservedKey(key string) bool
isReservedKey(key) == key[1] = keyPrefix

\* key[0] of the empty string: index out of range
isReservedKeyPanics(key) == Len(key) = 0

\* d[k] = v for every pair of tmp
Overlay(d, tmp) ==
    MakeMap([k \in (DOMAIN d.kv) \cup (DOMAIN tmp.kv) |->
                 IF k \in DOMAIN tmp.kv THEN tmp.kv[k] ELSE d.kv[k]])

\* func (e *Basic) SetData(d KVPairs), as the new value of e.data
RECURSIVE setAll(_, _, _)
setAll(data, d, keys) ==
    IF keys = {} THEN data
    ELSE LET key == CHOOSE k \in keys : TRUE
             next == IF isReservedKey(key) THEN data ELSE MapSet(data, key, d.kv[key])
         IN  setAll(next, d, keys \ {key})

\* SetData that writes every pair, reserved or not
SetData_noSkip(data, d) == Overlay(IF data.isNil THEN EmptyMap ELSE data, d)

\* SetData that starts from an empty map instead of the node's pairs
SetData_replace(data, d) == setAll(EmptyMap, d, DOMAIN d.kv)

SetData(data, d) ==
    setAll(IF data.isNil THEN EmptyMap ELSE data, d, DOMAIN d.kv)

\* SetKeyVal that accepts every key
SetKeyVal_anyKey(data, k, v) == MapSet(IF data.isNil THEN EmptyMap ELSE data, k, v)

\* SetKeyVal that makes the map before it looks at the key
SetKeyVal_makeFirst(data, k, v) ==
    IF isReservedKey(k) THEN (IF data.isNil THEN EmptyMap ELSE data)
    ELSE MapSet(IF data.isNil THEN EmptyMap ELSE data, k, v)

\* func (e *Basic) SetKeyVal(k string, v interface{}) error, as the new value
\* of e.data when the key is accepted
SetKeyVal(data, k, v) ==
    IF isReservedKey(k) THEN data
    ELSE MapSet(IF data.isNil THEN EmptyMap ELSE data, k, v)

\* func (e *Basic) addMyData(d KVPairs): d with the node's own pairs written over it
RECURSIVE addAll(_, _, _)
addAll(data, d, keys) ==
    IF keys = {} THEN d
    ELSE LET key == CHOOSE k \in keys : TRUE
             next == IF isReservedKey(key) THEN d ELSE MapSet(d, key, data.kv[key])
         IN  addAll(data, next, keys \ {key})

\* addMyData that keeps a pair already collected from below
addMyData_keepInherited(data, d) ==
    LET own == {k \in DOMAIN data.kv : ~isReservedKey(k)}
    IN  MakeMap([k \in (DOMAIN d.kv) \cup own |->
                    IF k \in DOMAIN d.kv THEN d.kv[k] ELSE data.kv[k]])

addMyData(data, d) == addAll(data, d, DOMAIN data.kv)

----------------------------------------------------------------------------
(* Chain traversal *)

\* func (e *Basic) Unwrap() error
Unwrap(h, e) == h[e].err

\* the text between the members of a joined error
JoinSep == <<"\n">>

\* Error() of any error value; for a Basic, func (e *Basic) Error() string
RECURSIVE Error(_, _)
RECURSIVE ErrorMulti(_, _, _)

\* Error() that writes the separator after every message, cause or not
Error_sepAlways(h, e) ==
    CASE h[e].kind = "basic" ->
           LET hasMsg == MapHas(h[e].data, msgKey)
               m1 == IF hasMsg THEN MapGet(h[e].data, msgKey).v \o <<": ">> ELSE <<>>
           IN  IF h[e].err # Nil THEN m1 \o Error(h, h[e].err) ELSE m1
      [] h[e].kind = "join" -> ErrorMulti(h, h[e].errs, 1)
      [] OTHER -> h[e].text

Error(h, e) ==
    CASE h[e].kind = "basic" ->
           LET hasMsg == MapHas(h[e].data, msgKey)
               m1 == IF hasMsg THEN MapGet(h[e].data, msgKey).v ELSE <<>>
               m2 == IF hasMsg /\ h[e].err # Nil THEN m1 \o <<": ">> ELSE m1
           IN  IF h[e].err # Nil THEN m2 \o Error(h, h[e].err) ELSE m2
      [] h[e].kind = "join" -> ErrorMulti(h, h[e].errs, 1)
      [] OTHER -> h[e].text

ErrorMulti(h, errs, i) ==
    IF i > Len(errs) THEN <<>>
    ELSE IF i = 1 THEN Error(h, errs[i]) \o ErrorMulti(h, errs, i + 1)
    ELSE JoinSep \o Error(h, errs[i]) \o ErrorMulti(h, errs, i + 1)

\* func Cause(err error) error
RECURSIVE Cause(_, _)
Cause(h, err) ==
    IF err = Nil THEN Nil
    ELSE LET c == As(h, err, "Wrapper")
         IN  IF c = Nil THEN err
             ELSE IF Unwrap(h, c) = Nil THEN err
             ELSE Cause(h, Unwrap(h, c))

NotFound(h) == [val |-> NilIface, found |-> FALSE, h |-> h]

\* func (e *Basic) GetValue(key string) (val interface{}, found bool); h is the
\* heap the call leaves behind (it makes the data map of a node it visits)
RECURSIVE GetValue(_, _, _)
RECURSIVE GetValueMulti(_, _, _, _)

\* GetValue without the check of the key
GetValue_noReservedCheck(h, e, key) ==
    LET h1 == IF h[e].data.isNil THEN [h EXCEPT ![e].data = EmptyMap] ELSE h
        x  == h1[e].err
    IN  IF MapHas(h1[e].data, key)
        THEN [val |-> MapGet(h1[e].data, key), found |-> TRUE, h |-> h1]
        ELSE IF x = Nil THEN NotFound(h1)
        ELSE IF h1[x].kind \in {"basic", "wrapper"}
        THEN LET de == As(h1, x, "DataError")
             IN  IF de = Nil THEN NotFound(h1)
                 ELSE LET r == GetValue(h1, de, key)
                      IN  IF r.found THEN r ELSE NotFound(r.h)
        ELSE IF h1[x].kind = "join" THEN GetValueMulti(h1, h1[x].errs, 1, key)
        ELSE NotFound(h1)

GetValue(h, e, key) ==
    IF isReservedKey(key) THEN NotFound(h)
    ELSE LET h1 == IF h[e].data.isNil THEN [h EXCEPT ![e].data = EmptyMap] ELSE h
             x  == h1[e].err
         IN  IF MapHas(h1[e].data, key)
             THEN [val |-> MapGet(h1[e].data, key), found |-> TRUE, h |-> h1]
             ELSE IF x = Nil THEN NotFound(h1)
             ELSE IF h1[x].kind \in {"basic", "wrapper"}
             THEN LET de == As(h1, x, "DataError")
                  IN  IF de = Nil THEN NotFound(h1)
                      ELSE LET r == GetValue(h1, de, key)
                           IN  IF r.found THEN r ELSE NotFound(r.h)
             ELSE IF h1[x].kind = "join" THEN GetValueMulti(h1, h1[x].errs, 1, key)
             ELSE NotFound(h1)

GetValueMulti(h, errs, i, key) ==
    IF i > Len(errs) THEN NotFound(h)
    ELSE LET de == As(h, errs[i], "DataError")
         IN  IF de = Nil THEN GetValueMulti(h, errs, i + 1, key)
             ELSE LET r == GetValue(h, de, key)
                  IN  IF r.found THEN r ELSE GetValueMulti(r.h, errs, i + 1, key)

\* func (e *Basic) GetAllData() KVPairs
RECURSIVE GetAllData(_, _)
RECURSIVE GetAllDataMulti(_, _, _, _)
\* GetAllData that returns the node's own pairs only
GetAllData_ownOnly(h, e) == addMyData(h[e].data, EmptyMap)

\* the loop over the members of a join from the first member to the last
RECURSIVE GetAllDataMulti_forward(_, _, _, _)
GetAllDataMulti_forward(h, multi, i, d) ==
    IF i >= Len(multi) THEN d
    ELSE LET de == As(h, multi[i + 1], "DataError")
         IN  IF de = Nil THEN GetAllDataMulti_forward(h, multi, i + 1, d)
             ELSE GetAllDataMulti_forward(h, multi, i + 1, Overlay(d, GetAllData(h, de)))

GetAllData(h, e) ==
    LET x == h[e].err
        d == IF x = Nil THEN EmptyMap
             ELSE IF h[x].kind \in {"basic", "wrapper"}
             THEN LET de == As(h, x, "DataError")
                  IN  IF de = Nil THEN EmptyMap ELSE GetAllData(h, de)
             ELSE IF h[x].kind = "join" THEN GetAllDataMulti(h, h[x].errs, 0, EmptyMap)
             ELSE EmptyMap
    IN  addMyData(h[e].data, d)

\* the loop over the members of a join: i counts from the last member
GetAllDataMulti(h, multi, i, d) ==
    IF i >= Len(multi) THEN d
    ELSE LET de == As(h, multi[Len(multi) - i], "DataError")
         IN  IF de = Nil THEN GetAllDataMulti(h, multi, i + 1, d)
             ELSE GetAllDataMulti(h, multi, i + 1, Overlay(d, GetAllData(h, de)))

\* GetAllData that hands out the map of a node without a cause
GetAllDataRef_ownMap(h, e) ==
    IF h[e].err = Nil /\ ~h[e].data.isNil THEN e ELSE Nil

\* the map object GetAllData returns: the node whose data field it is, or Nil
\* for a map made by the call (d := make(KVPairs)); below a single cause the
\* map is the one the inner call returned (d = de.GetAllData()), and the pairs
\* of join members are copied into d one by one
RECURSIVE GetAllDataRef(_, _)
GetAllDataRef(h, e) ==
    LET x == h[e].err
    IN  IF x = Nil THEN Nil
        ELSE IF h[x].kind \in {"basic", "wrapper"}
        THEN LET de == As(h, x, "DataError")
             IN  IF de = Nil THEN Nil ELSE GetAllDataRef(h, de)
        ELSE Nil

----------------------------------------------------------------------------
(* Constructors: what a call returns *)

RetNil == [panic |-> FALSE, isNil |-> TRUE, node |-> MkPlain(<<>>)]

RetPanic == [panic |-> TRUE, isNil |-> TRUE, node |-> MkPlain(<<>>)]

RetNode(n) == [panic |-> FALSE, isNil |-> FALSE, node |-> n]

\* doWrap without its nil check: a nil cause is wrapped like any other
doWrap_noNilCheck(h, level, err, data, format, args, frames) ==
    LET cause == IF err = errNilFlag THEN Nil ELSE err
        d0 == MapSet(EmptyMap, msgKey, Iface("string", formatMsg(format, args)))
        u  == useAbbreviatedStack(h, cause, callers(level, <<"errors.doWrap">> \o frames))
    IN  IF u.panic THEN RetPanic
        ELSE LET d1 == MapSet(d0, IF u.abbr THEN abbrStackKey ELSE stackKey,
                              Iface("stack", u.stk))
             IN  RetNode(MkBasic(cause, IF data.isNil THEN d1 ELSE SetData(d1, data)))

\* func doWrap(level int, err error, data KVPairs, format string, args ...interface{}) error
doWrap(h, level, err, data, format, args, frames) ==
    IF err = Nil THEN RetNil
    ELSE LET cause == IF err = errNilFlag THEN Nil ELSE err
             d0 == MapSet(EmptyMap, msgKey, Iface("string", formatMsg(format, args)))
             u  == useAbbreviatedStack(h, cause, callers(level, <<"errors.doWrap">> \o frames))
         IN  IF u.panic THEN RetPanic
             ELSE LET d1 == MapSet(d0, IF u.abbr THEN abbrStackKey ELSE stackKey,
                                   Iface("stack", u.stk))
                      d2 == IF data.isNil THEN d1 ELSE SetData(d1, data)
                  IN  RetNode(MkBasic(cause, d2))

\* func New(msg string) error
New(h, msg, frames) ==
    doWrap(h, 1, errNilFlag, NilMap, msg, <<>>, <<"errors.New">> \o frames)

\* func Errorf(format string, args ...interface{}) error
Errorf(h, format, args, frames) ==
    doWrap(h, 1, errNilFlag, NilMap, format, args, <<"errors.Errorf">> \o frames)

\* func ErrorfD(data KVPairs, format string, args ...interface{}) error
ErrorfD(h, data, format, args, frames) ==
    doWrap(h, 1, errNilFlag, data, format, args, <<"errors.ErrorfD">> \o frames)

\* func Wrap(err error, format string, args ...interface{}) error
Wrap(h, err, format, args, frames) ==
    doWrap(h, 1, err, NilMap, format, args, <<"errors.Wrap">> \o frames)

\* func WrapD(err error, data KVPairs, format string, args ...interface{}) error
WrapD(h, err, data, format, args, frames) ==
    doWrap(h, 1, err, data, format, args, <<"errors.WrapD">> \o frames)

\* func WithMessageD(err error, data KVPairs, format string, args ...interface{}) error
WithMessageD(err, data, format, args) ==
    IF err = Nil THEN RetNil
    ELSE LET cause == IF err = errNilFlag THEN Nil ELSE err
             d0 == MapSet(EmptyMap, msgKey, Iface("string", formatMsg(format, args)))
         IN  RetNode(MkBasic(cause, IF data.isNil THEN d0 ELSE SetData(d0, data)))

\* func WithMessage(err error, format string, args ...interface{}) error
WithMessage(err, format, args) == WithMessageD(err, NilMap, format, args)

\* WithStack that stores the cause it was given, the nil flag included
WithStack_keepFlag(err, frames) ==
    IF err = Nil THEN RetNil
    ELSE LET s == callers(0, <<"errors.WithStack">> \o frames)
         IN  RetNode(MkBasic(err, MapSet(EmptyMap, stackKey, Iface("stack", s))))

\* func WithStack(err error) error
WithStack(err, frames) ==
    IF err = Nil THEN RetNil
    ELSE LET s == callers(0, <<"errors.WithStack">> \o frames)
             cause == IF err = errNilFlag THEN Nil ELSE err
         IN  RetNode(MkBasic(cause, MapSet(EmptyMap, stackKey, Iface("stack", s))))

\* func WithData(err error, d map[string]interface{}) error
WithData(err, d) ==
    IF err = Nil THEN RetNil
    ELSE LET cause == IF err = errNilFlag THEN Nil ELSE err
         IN  RetNode(MkBasic(cause, SetData(EmptyMap, d)))

\* func Join(errs ...error) error: the nil members are dropped, and no member
\* left means no error
RECURSIVE dropNil(_)
dropNil(errs) ==
    IF errs = <<>> THEN <<>>
    ELSE IF Head(errs) = Nil THEN dropNil(Tail(errs))
    ELSE <<Head(errs)>> \o dropNil(Tail(errs))

Join(errs) ==
    IF dropNil(errs) = <<>> THEN RetNil ELSE RetNode(MkJoin(dropNil(errs)))

----------------------------------------------------------------------------
(* State: the heap of error values and the last call with what it returned *)

Blank ==
    [op |-> "init", err |-> Nil, errs |-> <<>>, text |-> <<>>, args |-> <<>>,
     in |-> NilMap, frames |-> <<>>, key |-> <<>>, arg |-> NilIface,
     panic |-> FALSE, ret |-> Nil, found |-> FALSE, val |-> NilIface,
     out |-> NilMap, str |-> <<>>, stk |-> <<>>, cause |-> Nil, ref |-> Nil]

Init ==
    /\ heap = <<MkPlain(<<"nil flag">>)>>
    /\ last = Blank

\* the heap after a call that returned r, and the error the caller holds
Alloc(r) == IF r.panic \/ r.isNil THEN heap ELSE Append(heap, r.node)

RetId(r) == IF r.panic \/ r.isNil THEN Nil ELSE Len(heap) + 1

Basics(h) == {n \in Ids(h) : h[n].kind = "basic"}

\* the errors a caller outside the package can hold
Public(h) == Ids(h) \ {errNilFlag}

----------------------------------------------------------------------------
(* Calls *)

\* an error value of another package, such as io.EOF
CallPlain(text) ==
    /\ heap' = Append(heap, MkPlain(text))
    /\ last' = [Blank EXCEPT !.op = "Plain", !.text = text, !.ret = Len(heap) + 1]

\* e := &Basic{}
CallEmptyBasic ==
    /\ heap' = Append(heap, MkBasic(Nil, NilMap))
    /\ last' = [Blank EXCEPT !.op = "EmptyBasic", !.ret = Len(heap) + 1]

CallJoin(errs) ==
    LET r == Join(errs)
    IN  /\ heap' = Alloc(r)
        /\ last' = [Blank EXCEPT !.op = "Join", !.errs = errs, !.ret = RetId(r)]

CallNew(msg, frames) ==
    LET r == New(heap, msg, frames)
    IN  /\ heap' = Alloc(r)
        /\ last' = [Blank EXCEPT !.op = "New", !.text = msg, !.frames = frames,
                                 !.panic = r.panic, !.ret = RetId(r)]

CallErrorfD(data, format, args, frames) ==
    LET r == ErrorfD(heap, data, format, args, frames)
    IN  /\ heap' = Alloc(r)
        /\ last' = [Blank EXCEPT !.op = "ErrorfD", !.in = data, !.text = format,
                                 !.args = args, !.frames = frames,
                                 !.panic = r.panic, !.ret = RetId(r)]

CallWrap(err, format, args, frames) ==
    LET r == Wrap(heap, err, format, args, frames)
    IN  /\ heap' = Alloc(r)
        /\ last' = [Blank EXCEPT !.op = "Wrap", !.err = err, !.text = format,
                                 !.args = args, !.frames = frames,
                                 !.panic = r.panic, !.ret = RetId(r)]

CallWrapD(err, data, format, args, frames) ==
    LET r == WrapD(heap, err, data, format, args, frames)
    IN  /\ heap' = Alloc(r)
        /\ last' = [Blank EXCEPT !.op = "WrapD", !.err = err, !.in = data,
                                 !.text = format, !.args = args, !.frames = frames,
                                 !.panic = r.panic, !.ret = RetId(r)]

CallWithMessage(err, format, args) ==
    LET r == WithMessage(err, format, args)
    IN  /\ heap' = Alloc(r)
        /\ last' = [Blank EXCEPT !.op = "WithMessage", !.err = err, !.text = format,
                                 !.args = args, !.ret = RetId(r)]

CallWithMessageD(err, data, format, args) ==
    LET r == WithMessageD(err, data, format, args)
    IN  /\ heap' = Alloc(r)
        /\ last' = [Blank EXCEPT !.op = "WithMessageD", !.err = err, !.in = data,
                                 !.text = format, !.args = args, !.ret = RetId(r)]

CallWithStack(err, frames) ==
    LET r == WithStack(err, frames)
    IN  /\ heap' = Alloc(r)
        /\ last' = [Blank EXCEPT !.op = "WithStack", !.err = err, !.frames = frames,
                                 !.ret = RetId(r)]

CallWithData(err, d) ==
    LET r == WithData(err, d)
    IN  /\ heap' = Alloc(r)
        /\ last' = [Blank EXCEPT !.op = "WithData", !.err = err, !.in = d,
                                 !.ret = RetId(r)]

CallCause(err) ==
    /\ heap' = heap
    /\ last' = [Blank EXCEPT !.op = "Cause", !.err = err, !.ret = Cause(heap, err)]

CallError(e) ==
    /\ heap' = heap
    /\ last' = [Blank EXCEPT !.op = "Error", !.err = e, !.str = Error(heap, e)]

\* the text of the error SetKeyVal returns for a reserved key
reservedKeyMsg == <<"cannot use a reserved key (string starting with '_')">>

\* the check of the key comes first: with the empty key the call panics
\* before it touches the node
CallSetKeyVal(e, k, v, frames) ==
    IF isReservedKeyPanics(k)
    THEN /\ heap' = heap
         /\ last' = [Blank EXCEPT !.op = "SetKeyVal", !.err = e, !.key = k, !.arg = v,
                                  !.frames = frames, !.panic = TRUE]
    ELSE LET r == IF isReservedKey(k)
                  THEN Errorf(heap, reservedKeyMsg, <<>>, <<"errors.SetKeyVal">> \o frames)
                  ELSE RetNil
         IN  /\ heap' = [Alloc(r) EXCEPT ![e].data = SetKeyVal(@, k, v)]
             /\ last' = [Blank EXCEPT !.op = "SetKeyVal", !.err = e, !.key = k, !.arg = v,
                                      !.frames = frames, !.panic = r.panic, !.ret = RetId(r)]

\* the map is ranged over in an unspecified order: when it holds the empty key
\* the call panics after it has made e.data and written any of the other pairs
CallSetData(e, d) ==
    IF \E key \in DOMAIN d.kv : isReservedKeyPanics(key)
    THEN \E done \in SUBSET {key \in DOMAIN d.kv : ~isReservedKeyPanics(key)} :
           /\ heap' = [heap EXCEPT ![e].data =
                           setAll(IF @.isNil THEN EmptyMap ELSE @, d, done)]
           /\ last' = [Blank EXCEPT !.op = "SetData", !.err = e, !.in = d,
                                    !.panic = TRUE]
    ELSE /\ heap' = [heap EXCEPT ![e].data = SetData(@, d)]
         /\ last' = [Blank EXCEPT !.op = "SetData", !.err = e, !.in = d]

CallGetValue(e, key) ==
    IF isReservedKeyPanics(key)
    THEN /\ heap' = heap
         /\ last' = [Blank EXCEPT !.op = "GetValue", !.err = e, !.key = key,
                                  !.panic = TRUE]
    ELSE LET r == GetValue(heap, e, key)
         IN  /\ heap' = r.h
             /\ last' = [Blank EXCEPT !.op = "GetValue", !.err = e, !.key = key,
                                      !.found = r.found, !.val = r.val]

CallGetAllData(e) ==
    /\ heap' = heap
    /\ last' = [Blank EXCEPT !.op = "GetAllData", !.err = e, !.out = GetAllData(heap, e),
                             !.ref = GetAllDataRef(heap, e)]

----------------------------------------------------------------------------
(* Construction, cause and message: the calls and their arguments *)

\* the call stacks of two call sites of one function
Stacks == {<<"pc1", "main">>, <<"pc2", "main">>}

V1 == Iface("string", <<"v1">>)

V2 == Iface("string", <<"v2">>)

KeyK == <<"k">>

KeyJ == <<"j">>

KeyR == <<"_", "r">>

\* a data argument with a reserved key among its pairs
SomeData == MakeMap((KeyK :> V1) @@ (KeyR :> V2))

\* the cause arguments: nil or an error the caller holds
Causes == {Nil} \cup Public(heap)

\* the arguments of Join: one error, or the newest error after a nil or after
\* any error
JoinArgs ==
    {<<a>> : a \in Public(heap)}
        \cup {<<a, b>> : a \in Causes, b \in {n \in Public(heap) : n = Len(heap)}}

\* a call that may allocate is made while the heap has room
Room == Len(heap) <= MaxNodes

Next ==
    \/ Room /\ CallPlain(<<"EOF">>)
    \/ Room /\ CallEmptyBasic
    \/ \E errs \in JoinArgs : Room /\ CallJoin(errs)
    \/ \E f \in Stacks : Room /\ CallNew(<<"error">>, f)
    \/ \E err \in Causes, f \in Stacks : Room /\ CallWrap(err, <<"error2">>, <<>>, f)
    \/ \E err \in Causes :
          Room /\ CallWrapD(err, SomeData, <<"wrapd ", "%s">>, <<<<"x">>>>, <<"pc1", "main">>)
    \/ \E err \in Causes : Room /\ CallWithMessage(err, <<"error2">>, <<>>)
    \/ \E err \in Causes \cup {errNilFlag} :
          Room /\ CallWithMessageD(err, SomeData, <<"error2">>, <<>>)
    \/ \E err \in Causes : Room /\ CallWithStack(err, <<"pc2", "main">>)
    \/ \E err \in Causes : Room /\ CallWithData(err, SomeData)
    \/ \E err \in Causes : CallCause(err)
    \/ \E e \in Public(heap) : CallError(e)

Spec == Init /\ [][Next]_vars

----------------------------------------------------------------------------
(* Claims on construction, cause and message *)

WrappingCtors ==
    {"Wrap", "WrapD", "WithMessage", "WithMessageD", "WithStack", "WithData"}

\* C1: every wrapping constructor (Wrap, WrapD, WithMessage, WithMessageD,
\* WithStack, WithData) called with a nil cause returns nil, whatever its other
\* arguments, and allocates no node.
C1_NilCauseNilResult ==
    [][(last'.op \in WrappingCtors /\ last'.err = Nil)
          => (last'.ret = Nil /\ ~last'.panic /\ heap' = heap)]_vars

C1_Witness ==
    /\ last.op = "WrapD" /\ last.err = Nil /\ last.ret = Nil
    /\ ~last.in.isNil /\ Len(heap) > 1

\* the message a node stores, as an interface{} value
MessageOf(h, e) == MapGet(h[e].data, msgKey)

\* C2: for every non-nil cause c, Wrap(c, text) completes and returns a non-nil
\* node whose Unwrap() is c and whose message is text, also when the cause's
\* chain exposes the stack capability but reports an empty or a shorter stack.
C2_WrapCompletes ==
    (last.op = "Wrap" /\ last.err # Nil)
        => /\ ~last.panic
           /\ last.ret # Nil
           /\ Unwrap(heap, last.ret) = last.err
           /\ MessageOf(heap, last.ret) = Iface("string", last.text)

\* C3: for every non-nil cause c and message m, Cause(Wrap(c, m)) is the same
\* error value as Cause(c), through any depth of nested Wrap calls.
C3_CauseOfWrap ==
    (last.op = "Wrap" /\ last.err # Nil)
        => /\ ~last.panic
           /\ last.ret # Nil
           /\ Cause(heap, last.ret) = Cause(heap, last.err)

\* the walk the claim describes: unwrap while the current error itself has
\* Unwrap() error and it yields an error
RECURSIVE unwindSelf(_, _)
unwindSelf(h, err) ==
    IF err = Nil THEN Nil
    ELSE IF h[err].kind \in {"basic", "wrapper"} /\ h[err].err # Nil
    THEN unwindSelf(h, h[err].err)
    ELSE err

\* C4: Cause(err) unwraps only while the current error itself implements the
\* single-cause unwrap capability and returns the first error that does not (or
\* whose unwrap yields nothing): a fan-in join is returned, never descended
\* into.  Cause(nil) is nil.
C4_CauseStopsAtJoin ==
    last.op = "Cause" => last.ret = unwindSelf(heap, last.err)

\* C5: Error() of a node is message ": " cause's Error() when both are present,
\* the message alone without a cause, the cause's Error() alone without a
\* message; New("error") wrapped by Wrap(_, "error2") renders "error2: error".
C5_ErrorText ==
    (last.op = "Error" /\ heap[last.err].kind = "basic")
        => LET e == last.err
               hasMsg == MapHas(heap[e].data, msgKey)
               msg == MessageOf(heap, e).v
               c == heap[e].err
           IN  /\ (hasMsg /\ c # Nil) => last.str = msg \o <<": ">> \o Error(heap, c)
               /\ (hasMsg /\ c = Nil) => last.str = msg
               /\ (~hasMsg /\ c # Nil) => last.str = Error(heap, c)
               /\ ( /\ hasMsg /\ msg = <<"error2">> /\ c # Nil
                    /\ heap[c].kind = "basic" /\ heap[c].err = Nil
                    /\ MessageOf(heap, c) = Iface("string", <<"error">>) )
                     => last.str = <<"error2", ": ", "error">>

C5_Witness ==
    /\ last.op = "Error"
    /\ last.str = <<"error2", ": ", "error">>
    /\ MapHas(heap[last.err].data, abbrStackKey)

----------------------------------------------------------------------------
(* Setting and reading the data of a node: the calls and their arguments *)

\* data arguments: both keys; one key again with another value and reserved keys
D1 == MakeMap((KeyK :> V1) @@ (KeyJ :> V1))

D2 == MakeMap((KeyK :> V2) @@ (KeyR :> V2) @@ (msgKey :> V2))

RoomData == Len(heap) <= MaxDataNodes

\* the cause arguments of a chain built one node on the other: nil, the
\* sentinel, or the newest error
ChainCauses == {Nil, errNilFlag} \cup {n \in Public(heap) : n = Len(heap)}

NextData ==
    \/ RoomData /\ CallEmptyBasic
    \/ RoomData /\ CallErrorfD(D2, <<"error">>, <<>>, <<"pc1", "main">>)
    \/ \E err \in ChainCauses \ {errNilFlag} :
          RoomData /\ CallWrapD(err, D2, <<"error2">>, <<>>, <<"pc1", "main">>)
    \/ \E err \in ChainCauses : RoomData /\ CallWithMessageD(err, D2, <<"error2">>, <<>>)
    \/ \E err \in ChainCauses : RoomData /\ CallWithData(err, D2)
    \/ \E e \in Basics(heap), k \in {KeyK, KeyR} :
          /\ isReservedKey(k) => RoomData
          /\ CallSetKeyVal(e, k, V1, <<"pc2", "main">>)
    \/ \E e \in Basics(heap), d \in {NilMap, EmptyMap, D1, D2} : CallSetData(e, d)
    \/ \E e \in Basics(heap), k \in {KeyK, msgKey, abbrStackKey} : CallGetValue(e, k)
    \/ \E e \in Basics(heap) : CallGetAllData(e)

SpecData == Init /\ [][NextData]_vars

----------------------------------------------------------------------------
(* Claims on setting and reading the data of a node *)

\* the pairs a setter call was given
Supplied(call) ==
    IF call.op = "SetKeyVal" THEN MakeMap(call.key :> call.arg) ELSE call.in

\* C6: SetKeyVal(k, v) with a reserved key returns a non-nil error and leaves
\* the node completely unchanged: no entry is added or modified and a nil data
\* map stays nil.
C6_ReservedKeyRejected ==
    [][(last'.op = "SetKeyVal" /\ isReservedKey(last'.key))
          => /\ ~last'.panic
             /\ last'.ret \in Ids(heap') \ Ids(heap)
             /\ \A n \in Ids(heap) : heap'[n] = heap[n]]_vars

C6_Witness ==
    /\ last.op = "SetKeyVal" /\ isReservedKey(last.key)
    /\ last.ret # Nil
    /\ heap[last.err].data.isNil

\* C7: a SetKeyVal or SetData call leaves every non-reserved key it supplies
\* present with the value it gave, changes no other entry, removes no key, and
\* leaves the cause and every other node unchanged; so after any sequence of
\* calls each key holds the value of the latest call that supplied it.
C7_SettersOverlay ==
    [][(last'.op \in {"SetKeyVal", "SetData"})
          => LET e == last'.err
                 old == heap[e].data.kv
                 new == heap'[e].data.kv
                 sup == Supplied(last').kv
                 set == {k \in DOMAIN sup : ~isReservedKey(k)}
             IN  /\ \A k \in set : k \in DOMAIN new /\ new[k] = sup[k]
                 /\ \A k \in (DOMAIN old) \ set : k \in DOMAIN new /\ new[k] = old[k]
                 /\ DOMAIN new = (DOMAIN old) \cup set
                 /\ heap'[e].err = heap[e].err
                 /\ \A n \in Ids(heap) \ {e} : heap'[n] = heap[n]]_vars

C7_Witness ==
    /\ last.op = "SetData" /\ last.in = D2
    /\ MapGet(heap[last.err].data, KeyK) = V2
    /\ MapGet(heap[last.err].data, KeyJ) = V1

\* the node whose data a call wrote: the receiver of SetData, the node a
\* constructor returned
Written(call) == IF call.op = "SetData" THEN call.err ELSE call.ret

\* C8: SetData, and the constructors WithData, WrapD, WithMessageD and ErrorfD
\* that go through it, skip every reserved key of the input map and still apply
\* all its other pairs; SetData(nil) or SetData of an empty map on a fresh node
\* yields an empty, non-nil data map.
C8_ReservedKeysSkipped ==
    [][(/\ last'.op \in {"SetData", "WithData", "WrapD", "WithMessageD", "ErrorfD"}
        /\ Written(last') # Nil)
          => LET e == Written(last')
                 new == heap'[e].data
                 in == last'.in.kv
             IN  /\ ~last'.panic
                 /\ ~new.isNil
                 /\ \A k \in DOMAIN in :
                       IF isReservedKey(k)
                       THEN IF last'.op = "SetData"
                            THEN MapHas(new, k) = MapHas(heap[e].data, k)
                                 /\ MapGet(new, k) = MapGet(heap[e].data, k)
                            ELSE (MapHas(new, k) => k \in {msgKey, stackKey, abbrStackKey})
                                 /\ (k = msgKey /\ MapHas(new, k)
                                        => new.kv[k] = Iface("string", last'.text))
                       ELSE MapHas(new, k) /\ new.kv[k] = in[k]
                 /\ (last'.op = "SetData" /\ heap[e].data.isNil /\ DOMAIN in = {})
                       => new = EmptyMap]_vars

C8_Witness ==
    /\ last.op = "WrapD" /\ last.ret # Nil
    /\ MapHas(last.in, KeyR) /\ MapHas(last.in, msgKey)
    /\ ~MapHas(heap[last.ret].data, KeyR)
    /\ MapGet(heap[last.ret].data, KeyK) = V2

\* C9: reserved keys are never observable through the data accessors:
\* GetValue(k) returns (nil, not found) for every reserved key on every node,
\* also for a key the library stored itself (_msg, _stack, _abbrstk), and the
\* map GetAllData returns holds no reserved key.
C9_ReservedKeysHidden ==
    /\ (last.op = "GetValue" /\ isReservedKey(last.key))
          => (~last.found /\ last.val = NilIface)
    /\ last.op = "GetAllData"
          => (~last.out.isNil /\ \A k \in DOMAIN last.out.kv : ~isReservedKey(k))

C9_Witness ==
    /\ last.op = "GetValue" /\ last.key = abbrStackKey
    /\ MapHas(heap[last.err].data, abbrStackKey)
    /\ ~last.found

----------------------------------------------------------------------------
(* Reading data through chains and joins: the calls and their arguments *)

K1 == MakeMap(KeyK :> V1)

K2 == MakeMap(KeyK :> V2)

RoomGraph == Len(heap) <= MaxGraphNodes

\* the arguments of Join: one error, or two in the order they were made
OrderedJoinArgs ==
    {<<a>> : a \in Public(heap)}
        \cup {<<p[1], p[2]>> : p \in {q \in Public(heap) \X Public(heap) : q[1] < q[2]}}

NextGraph ==
    \/ RoomGraph /\ CallEmptyBasic
    \/ RoomGraph /\ CallErrorfD(K2, <<"error">>, <<>>, <<"pc1", "main">>)
    \/ \E err \in ChainCauses \ {Nil, errNilFlag}, d \in {EmptyMap, K1} :
          RoomGraph /\ CallWithData(err, d)
    \/ \E errs \in OrderedJoinArgs : RoomGraph /\ CallJoin(errs)
    \/ \E e \in Basics(heap) \ {errNilFlag} : CallGetValue(e, KeyK)
    \/ \E e \in Basics(heap) \ {errNilFlag} : CallGetAllData(e)

SpecGraph == Init /\ [][NextGraph]_vars

----------------------------------------------------------------------------
(* Claims on reading data through chains and joins *)

\* the walk the claim describes: the first node that holds the key in a
\* pre-order, depth-first walk of the whole graph below an error
RECURSIVE firstMatch(_, _, _)
RECURSIVE firstMatchMulti(_, _, _, _)
firstMatch(h, n, key) ==
    IF n = Nil THEN [found |-> FALSE, val |-> NilIface]
    ELSE IF h[n].kind = "basic" /\ MapHas(h[n].data, key)
    THEN [found |-> TRUE, val |-> MapGet(h[n].data, key)]
    ELSE IF h[n].kind = "join" THEN firstMatchMulti(h, h[n].errs, 1, key)
    ELSE firstMatch(h, h[n].err, key)

firstMatchMulti(h, errs, i, key) ==
    IF i > Len(errs) THEN [found |-> FALSE, val |-> NilIface]
    ELSE LET r == firstMatch(h, errs[i], key)
         IN  IF r.found THEN r ELSE firstMatchMulti(h, errs, i + 1, key)

\* C10: GetValue(key) for a non-reserved key returns the first match of a
\* pre-order, depth-first walk of the error graph: the node's own data, then its
\* cause; the members of a join in join order, each member's whole subtree
\* before the next; (nil, false) when no node has the key.
C10_GetValuePreOrder ==
    (last.op = "GetValue" /\ ~isReservedKey(last.key))
        => LET r == firstMatch(heap, last.err, last.key)
           IN  last.found = r.found /\ last.val = r.val

----------------------------------------------------------------------------
(* Collecting the data of a single-cause chain: the calls and their arguments *)

MaxChainNodes == 3

V3 == Iface("string", <<"v3">>)

\* data arguments of the three depths: the same key with three values, a
\* second key at two depths
DA == MakeMap(KeyK :> V1)

DB == MakeMap((KeyK :> V2) @@ (KeyJ :> V2))

DC == MakeMap((KeyK :> V3) @@ (KeyJ :> V3) @@ (KeyR :> V3))

RoomChain == Len(heap) <= MaxChainNodes

\* the newest error: the chain is built one node on the other
Newest == {n \in Public(heap) : n = Len(heap)}

NextChain ==
    \/ RoomChain /\ CallPlain(<<"EOF">>)
    \/ RoomChain /\ CallEmptyBasic
    \/ RoomChain /\ CallErrorfD(DC, <<"error">>, <<>>, <<"pc1", "main">>)
    \/ \E err \in Newest, d \in {DA, DB} : RoomChain /\ CallWithData(err, d)
    \/ \E err \in Newest, d \in {NilMap, DB} :
          RoomChain /\ CallWithMessageD(err, d, <<"error2">>, <<>>)
    \/ \E e \in Basics(heap) : CallSetKeyVal(e, KeyJ, V1, <<"pc2", "main">>)
    \/ \E e \in Basics(heap) : CallGetAllData(e)

SpecChain == Init /\ [][NextChain]_vars

----------------------------------------------------------------------------
(* Claims on collecting the data of a single-cause chain *)

\* the non-reserved keys set on the nodes of the chain below an error
RECURSIVE chainKeys(_, _)
chainKeys(h, n) ==
    IF n = Nil THEN {}
    ELSE IF h[n].kind # "basic" THEN {}
    ELSE {k \in DOMAIN h[n].data.kv : ~isReservedKey(k)} \cup chainKeys(h, h[n].err)

\* the value of a key on the shallowest node of the chain that sets it
RECURSIVE shallowest(_, _, _)
shallowest(h, n, k) ==
    IF MapHas(h[n].data, k) THEN MapGet(h[n].data, k)
    ELSE shallowest(h, h[n].err, k)

\* C11: on a single-cause chain A wrapping B wrapping C, GetAllData() on A
\* returns the union of the non-reserved keys of A, B and C, each with the value
\* of the shallowest node that sets it; a node with no data and no cause yields
\* an empty, non-nil map.
C11_ChainShallowestWins ==
    last.op = "GetAllData"
        => LET e == last.err
               out == last.out
           IN  /\ ~out.isNil
               /\ DOMAIN out.kv = chainKeys(heap, e)
               /\ \A k \in DOMAIN out.kv : out.kv[k] = shallowest(heap, e, k)
               /\ (heap[e].err = Nil /\ DOMAIN heap[e].data.kv = {}) => out = EmptyMap

C11_Witness ==
    /\ last.op = "GetAllData"
    /\ LET a == last.err
           b == heap[a].err
       IN  /\ b # Nil /\ heap[b].kind = "basic" /\ heap[b].err # Nil
           /\ LET c == heap[b].err
              IN  /\ heap[c].kind = "basic"
                  /\ MapGet(heap[a].data, KeyK) = V1
                  /\ MapGet(heap[b].data, KeyK) = V2
                  /\ MapGet(heap[c].data, KeyK) = V3
                  /\ ~MapHas(heap[a].data, KeyJ)
                  /\ last.out = MakeMap((KeyK :> V1) @@ (KeyJ :> V2))

----------------------------------------------------------------------------
(* Claims on collecting the data of joined branches *)

\* a GetAllData call on a node whose cause is a join of annotated nodes
OverJoin ==
    /\ last.op = "GetAllData"
    /\ heap[last.err].err # Nil
    /\ heap[heap[last.err].err].kind = "join"
    /\ \A i \in DOMAIN heap[heap[last.err].err].errs :
          heap[heap[heap[last.err].err].errs[i]].kind = "basic"

\* the members of the join whose own collection holds the key
MembersWith(k) ==
    LET errs == heap[heap[last.err].err].errs
    IN  {i \in DOMAIN errs : MapHas(GetAllData(heap, errs[i]), k)}

Latest(S) == CHOOSE i \in S : \A j \in S : j <= i

Earliest(S) == CHOOSE i \in S : \A j \in S : i <= j

\* what the call must return when, among the members that hold a key, the
\* latest (or else the earliest) wins, and the node's own pairs win over all
\* members
JoinMerge(laterWins) ==
    LET e == last.err
        errs == heap[heap[e].err].errs
        own == {k \in DOMAIN heap[e].data.kv : ~isReservedKey(k)}
        below == UNION {DOMAIN GetAllData(heap, errs[i]).kv : i \in DOMAIN errs}
    IN  /\ DOMAIN last.out.kv = own \cup below
        /\ \A k \in own : last.out.kv[k] = heap[e].data.kv[k]
        /\ \A k \in below \ own :
              LET i == IF laterWins THEN Latest(MembersWith(k))
                       ELSE Earliest(MembersWith(k))
              IN  last.out.kv[k] = GetAllData(heap, errs[i]).kv[k]

\* C12 as stated: for a node wrapping a join, GetAllData returns for a key set
\* in several branches the value of the later-indexed member, and a value set
\* on the wrapping node itself wins over all branches.
C12_JoinLaterMemberWins == OverJoin => JoinMerge(TRUE)

\* C12 amended: for a node wrapping a join, GetAllData returns for a key set in
\* several branches the value of the earliest-indexed member that holds it, and
\* a value set on the wrapping node itself wins over all branches.
C12_JoinEarlierMemberWins == OverJoin => JoinMerge(FALSE)

C12_Witness ==
    /\ OverJoin
    /\ ~MapHas(heap[last.err].data, KeyK)
    /\ LET errs == heap[heap[last.err].err].errs
       IN  /\ Len(errs) = 2
           /\ MapGet(GetAllData(heap, errs[1]), KeyK) = V1
           /\ MapGet(GetAllData(heap, errs[2]), KeyK) = V2
    /\ MapGet(last.out, KeyK) = V1

----------------------------------------------------------------------------
(* Stacks: the calls and their arguments *)

MaxStackNodes == 4

\* fmt.Errorf("...: %w", err) of the standard library: a wrapper of another
\* package with Unwrap() error
CallForeignWrap(err) ==
    /\ heap' = Append(heap, MkWrapper(err, <<"fmt: ">> \o Error(heap, err)))
    /\ last' = [Blank EXCEPT !.op = "ForeignWrap", !.err = err, !.ret = Len(heap) + 1]

CallErrorf(format, args, frames) ==
    LET r == Errorf(heap, format, args, frames)
    IN  /\ heap' = Alloc(r)
        /\ last' = [Blank EXCEPT !.op = "Errorf", !.text = format, !.args = args,
                                 !.frames = frames, !.panic = r.panic,
                                 !.ret = RetId(r)]

\* Errorf("ctx: %w", err) with an error operand
CallErrorfW(err, frames) ==
    LET r == Errorf(heap, <<"ctx: ", "%w">>, <<Error(heap, err)>>, frames)
    IN  /\ heap' = Alloc(r)
        /\ last' = [Blank EXCEPT !.op = "Errorf", !.err = err,
                                 !.text = <<"ctx: ", "%w">>,
                                 !.args = <<Error(heap, err)>>, !.frames = frames,
                                 !.panic = r.panic, !.ret = RetId(r)]

\* e.StackTrace(); a nil StackTrace is the empty sequence
CallStackTrace(e) ==
    /\ heap' = heap
    /\ last' = [Blank EXCEPT !.op = "StackTrace", !.err = e, !.stk = StackTrace(heap, e)]

\* call stacks, innermost frame first: two call sites of one function, a call
\* site that shares only the outermost frame with them, and a capture whose
\* outermost frame is another one
S1 == <<"f1", "main", "goexit">>

S2 == <<"f2", "main", "goexit">>

S3 == <<"g", "h", "goexit">>

S4 == <<"f2", "deep">>

RoomStack == Len(heap) <= MaxStackNodes

\* the error made first
Oldest == {n \in Public(heap) : \A m \in Public(heap) : n <= m}

NextStack ==
    \/ RoomStack /\ CallPlain(<<"EOF">>)
    \/ RoomStack /\ CallEmptyBasic
    \/ \E err \in Newest : RoomStack /\ CallForeignWrap(err)
    \/ \E errs \in {<<n>> : n \in Newest} \cup {<<a, n>> : a \in Oldest, n \in Newest} :
          RoomStack /\ CallJoin(errs)
    \/ \E a \in {<<<<"error">>, S1>>, <<<<"error">>, S4>>, <<<<"rate ", "%s">>, S1>>} :
          RoomStack /\ CallNew(a[1], a[2])
    \/ RoomStack /\ CallErrorf(<<"code ", "%s">>, <<<<"7">>>>, S1)
    \/ RoomStack /\ CallErrorfD(SomeData, <<"code ", "%v">>, <<<<"7">>>>, S1)
    \/ \E err \in Newest : RoomStack /\ CallErrorfW(err, S1)
    \/ \E err \in Newest, f \in {S1, S2, S3, S4} :
          RoomStack /\ CallWrap(err, <<"error2">>, <<>>, f)
    \/ \E err \in Newest : RoomStack /\ CallWithMessage(err, <<"error2">>, <<>>)
    \/ \E err \in Newest : RoomStack /\ CallWithStack(err, S2)
    \/ \E e \in Basics(heap) : CallStackTrace(e)

SpecStack == Init /\ [][NextStack]_vars

----------------------------------------------------------------------------
(* Claims on stacks *)

\* does the single-cause walk below an error end without meeting a join
RECURSIVE pureChain(_, _)
pureChain(h, n) ==
    IF n = Nil THEN TRUE
    ELSE IF h[n].kind = "join" THEN FALSE
    ELSE pureChain(h, h[n].err)

\* the full stack of the nearest annotated node that has one, walking from an
\* error through single causes; none is the empty sequence
RECURSIVE chainStack(_, _)
chainStack(h, n) ==
    IF n = Nil THEN <<>>
    ELSE IF h[n].kind = "basic" /\ MapHas(h[n].data, stackKey)
    THEN MapGet(h[n].data, stackKey).v
    ELSE IF h[n].kind \in {"basic", "wrapper"} THEN chainStack(h, h[n].err)
    ELSE <<>>

\* C14: StackTrace() on a node returns the node's own full stack when it has
\* one; otherwise the result of StackTrace() on the nearest annotated node
\* reachable from its cause through single-cause unwrapping; and nil when no
\* node in the chain carries a full stack.
C14_StackTraceOfChain ==
    (last.op = "StackTrace" /\ pureChain(heap, last.err))
        => /\ last.stk = chainStack(heap, last.err)
           /\ MapHas(heap[last.err].data, stackKey)
                 => last.stk = MapGet(heap[last.err].data, stackKey).v
           /\ (heap[last.err].data.isNil /\ heap[last.err].err = Nil) => last.stk = <<>>

C14_Witness ==
    /\ last.op = "StackTrace"
    /\ ~MapHas(heap[last.err].data, stackKey)
    /\ heap[last.err].err # Nil
    /\ heap[heap[last.err].err].kind = "wrapper"
    /\ LET b == heap[heap[last.err].err].err
       IN  /\ heap[b].kind = "basic"
           /\ MapHas(heap[b].data, abbrStackKey)
           /\ heap[heap[b].err].kind = "basic"
           /\ last.stk = S1

\* the text a constructor call was asked to carry
Formatted(call) == IF call.args = <<>> THEN call.text ELSE Sprintf(call.text, call.args)

RECURSIVE reachesJoin(_, _)
reachesJoin(h, n) ==
    IF n = Nil THEN FALSE
    ELSE IF h[n].kind = "join" THEN TRUE
    ELSE IF h[n].kind = "basic" /\ MapHas(h[n].data, stackKey) THEN FALSE
    ELSE IF h[n].kind \in {"basic", "wrapper"} THEN reachesJoin(h, h[n].err)
    ELSE FALSE

\* C19: the StackTrace() search stops at a fan-in join: if a node has no own
\* full stack and every stack-carrying node below it is reachable only through
\* a join, StackTrace() returns nil, also when a foreign single-cause wrapper
\* sits between the node and the join.
C19_StackTraceStopsAtJoin ==
    (last.op = "StackTrace" /\ reachesJoin(heap, last.err)) => last.stk = <<>>

\* the number of frames two stacks share, counted from the outermost end
RECURSIVE tailMatch(_, _, _)
tailMatch(outer, inner, i) ==
    IF /\ i < Len(outer) /\ i < Len(inner)
       /\ outer[Len(outer) - i] = inner[Len(inner) - i]
    THEN tailMatch(outer, inner, i + 1)
    ELSE i

\* C20: for a new capture outer and the cause's stack inner whose first
\* mismatch occurs after exactly i matching frames: i = 0 stores the full
\* capture untouched as the node's full stack; i = 1 stores an abbreviated
\* stack equal to outer without its last frame; i > 1 stores an abbreviated
\* stack equal to outer without its last i-1 frames.
C20_StackMergeTable ==
    (/\ last.op = "Wrap" /\ last.err # Nil
     /\ As(heap, last.err, "StackTracer") # Nil)
        => LET outer == last.frames
               inner == StackTrace(heap, As(heap, last.err, "StackTracer"))
               i == tailMatch(outer, inner, 0)
           IN  (i < Len(outer) /\ i < Len(inner))
                  => /\ ~last.panic /\ last.ret # Nil
                     /\ LET d == heap[last.ret].data
                        IN  /\ i = 0 => /\ MapGet(d, stackKey) = Iface("stack", outer)
                                        /\ ~MapHas(d, abbrStackKey)
                            /\ i = 1 => /\ MapGet(d, abbrStackKey)
                                              = Iface("stack", SubSeq(outer, 1, Len(outer) - 1))
                                        /\ ~MapHas(d, stackKey)
                            /\ i > 1 => /\ MapGet(d, abbrStackKey)
                                              = Iface("stack", SubSeq(outer, 1, Len(outer) - (i - 1)))
                                        /\ ~MapHas(d, stackKey)

C20_Witness ==
    /\ last.op = "Wrap" /\ last.ret # Nil /\ last.frames = S2
    /\ StackTrace(heap, last.err) = S1
    /\ MapGet(heap[last.ret].data, abbrStackKey) = Iface("stack", <<"f2", "main">>)

\* C16: when the format passed to Errorf contains a %w verb with an error
\* operand, the returned error's Unwrap() returns that operand, so the operand
\* is reachable through Cause and As from the returned error.
C16_ErrorfWrapsOperand ==
    (last.op = "Errorf" /\ last.err # Nil)
        => /\ last.ret # Nil
           /\ Unwrap(heap, last.ret) = last.err
           /\ Cause(heap, last.ret) = Cause(heap, last.err)

----------------------------------------------------------------------------
(* Setting the cause of a node after construction: the calls and their
   arguments *)

MaxWrapNodes == 2

\* Basic.Wrap that leaves a cause already set in place
BasicWrap_onlyFirst(h, e, err) ==
    IF h[e].err = Nil THEN [h EXCEPT ![e].err = err] ELSE h

\* func (e *Basic) Wrap(err error)
BasicWrap(h, e, err) == [h EXCEPT ![e].err = err]

CallBasicWrap(e, err) ==
    /\ heap' = BasicWrap(heap, e, err)
    /\ last' = [Blank EXCEPT !.op = "BasicWrap", !.err = e, !.cause = err]

CallUnwrap(e) ==
    /\ heap' = heap
    /\ last' = [Blank EXCEPT !.op = "Unwrap", !.err = e, !.ret = Unwrap(heap, e)]

\* the errors an error wraps directly: Unwrap() error and Unwrap() []error
Wrapped(h, n) ==
    (IF h[n].err = Nil THEN {} ELSE {h[n].err}) \cup {h[n].errs[i] : i \in DOMAIN h[n].errs}

\* the errors reachable from a set of errors in at most fuel steps
RECURSIVE ReachFrom(_, _, _)
ReachFrom(h, S, fuel) ==
    IF fuel = 0 THEN S
    ELSE ReachFrom(h, S \cup UNION {Wrapped(h, n) : n \in S}, fuel - 1)

\* the errors below an error
Below(h, n) == ReachFrom(h, Wrapped(h, n), Len(h))

\* a method that walks the chain returns only when no error at or below the
\* receiver wraps itself: on a cycle the recursion does not end
Returns(h, e) == \A n \in {e} \cup Below(h, e) : n \notin Below(h, n)

RoomWrap == Len(heap) <= MaxWrapNodes

NextWrap ==
    \/ RoomWrap /\ CallEmptyBasic
    \/ RoomWrap /\ CallNew(<<"error">>, <<"pc1", "main">>)
    \/ \E err \in Causes : RoomWrap /\ CallWithMessage(err, <<"error2">>, <<>>)
    \/ \E err \in Newest : RoomWrap /\ CallWithData(err, K1)
    \/ \E errs \in {<<n>> : n \in Public(heap)} : RoomWrap /\ CallJoin(errs)
    \/ \E e \in Basics(heap), err \in Causes : CallBasicWrap(e, err)
    \/ \E e \in Basics(heap) \cap Newest : CallSetKeyVal(e, KeyK, V2, <<"pc2", "main">>)
    \/ \E e \in Basics(heap) \cap Newest : CallSetData(e, K2)
    \/ \E e \in Basics(heap) : CallUnwrap(e)
    \/ \E e \in Basics(heap) : Returns(heap, e) /\ CallGetValue(e, KeyK)
    \/ \E e \in Basics(heap) : Returns(heap, e) /\ CallGetAllData(e)
    \/ \E e \in Basics(heap) : Returns(heap, e) /\ CallStackTrace(e)
    \/ \E e \in Basics(heap) : Returns(heap, e) /\ CallError(e)

SpecWrap == Init /\ [][NextWrap]_vars

----------------------------------------------------------------------------
(* Claims on the cause relation *)

\* C17 as stated: the cause of a node is fixed at construction: after any
\* public operation (SetKeyVal, SetData, GetValue, GetAllData, StackTrace,
\* Error, Unwrap, Basic.Wrap, wrapping it in further nodes) Unwrap() returns
\* the same error value as before.
C17_CauseFixed ==
    [][\A n \in Ids(heap) : heap'[n].err = heap[n].err /\ heap'[n].errs = heap[n].errs]_vars

\* C17 amended: the cause of a node changes only by a call of Basic.Wrap on
\* that node, which sets it to the argument of the call; every other public
\* operation leaves what Unwrap() returns as it was.
C17_CauseSetOnlyByBasicWrap ==
    [][/\ \A n \in Ids(heap) :
            /\ heap'[n].errs = heap[n].errs
            /\ heap'[n].err # heap[n].err => (last'.op = "BasicWrap" /\ last'.err = n)
       /\ last'.op = "BasicWrap" => heap'[last'.err].err = last'.cause]_vars

C17_Witness ==
    /\ last.op = "BasicWrap"
    /\ MapHas(heap[last.err].data, stackKey)
    /\ last.cause # Nil
    /\ heap[last.err].err = last.cause

\* C18: in every reachable state the cause relation is acyclic: no node is
\* reachable from itself by following cause links (single or joined).
C18_Acyclic == \A n \in Ids(heap) : n \notin Below(heap, n)

----------------------------------------------------------------------------
(* Merging a capture with the stack of the cause: the calls and their
   arguments *)

MaxMergeNodes == 3

\* a capture of one frame, the outermost frame of S1, S2 and S3
S5 == <<"goexit">>

RoomMerge == Len(heap) <= MaxMergeNodes

NextMerge ==
    \/ RoomMerge /\ CallPlain(<<"EOF">>)
    \/ \E f \in {S1, S4, S5} : RoomMerge /\ CallNew(<<"error">>, f)
    \/ RoomMerge /\ CallErrorf(<<"code ", "%s">>, <<<<"7">>>>, S2)
    \/ RoomMerge /\ CallErrorfD(SomeData, <<"error">>, <<>>, S3)
    \/ \E err \in Newest, f \in {S1, S2, S3, S4, S5} :
          RoomMerge /\ CallWrap(err, <<"error2">>, <<>>, f)
    \/ \E err \in Newest, f \in {S1, S2} :
          RoomMerge /\ CallWrapD(err, SomeData, <<"error2">>, <<>>, f)
    \/ \E err \in Newest : RoomMerge /\ CallWithMessage(err, <<"error2">>, <<>>)
    \/ \E err \in Newest : RoomMerge /\ CallWithStack(err, S2)
    \/ \E e \in Basics(heap) : CallStackTrace(e)

SpecMerge == Init /\ [][NextMerge]_vars

----------------------------------------------------------------------------
(* Claims on merging a capture with the stack of the cause *)

\* a Wrap or WrapD call on a cause whose chain has the stack capability
MergeCall ==
    /\ last.op \in {"Wrap", "WrapD"} /\ last.err # Nil
    /\ As(heap, last.err, "StackTracer") # Nil

\* the stack the capture of the call is compared with
InnerStack == StackTrace(heap, As(heap, last.err, "StackTracer"))

RewrapCall ==
    /\ last.op = "Wrap" /\ last.err \in Basics(heap)
    /\ MapHas(heap[last.err].data, stackKey)
    /\ LET inner == MapGet(heap[last.err].data, stackKey).v
       IN  /\ Len(last.frames) >= 2 /\ Len(inner) = Len(last.frames)
           /\ Tail(inner) = Tail(last.frames)

\* the number of frames of the capture that the stack of the cause lacks
Unshared == Len(last.frames) - tailMatch(last.frames, InnerStack, 0)

\* the stack a re-wrap stored, <<>> when it stored none or a full one
Abbreviated ==
    IF last.ret # Nil /\ MapHas(heap[last.ret].data, abbrStackKey)
                     /\ ~MapHas(heap[last.ret].data, stackKey)
    THEN MapGet(heap[last.ret].data, abbrStackKey).v
    ELSE <<>>

\* C22 as stated: re-wrapping a node with a fresh full stack from the same
\* calling frame stores an abbreviated stack holding at most the frames of the
\* second capture that the inner stack lacks, and StackTrace() of the outer
\* node is the inner node's full stack.
C22_RewrapKeepsOnlyUnshared ==
    RewrapCall
        => /\ ~last.panic
           /\ Abbreviated # <<>> /\ Len(Abbreviated) <= Unshared
           /\ Abbreviated = SubSeq(last.frames, 1, Len(Abbreviated))
           /\ StackTrace(heap, last.ret) = MapGet(heap[last.err].data, stackKey).v

\* C22 amended: the abbreviated stack holds the frames of the second capture
\* that the inner stack lacks and at most one shared frame after them.
C22_RewrapKeepsOneShared ==
    RewrapCall
        => /\ ~last.panic
           /\ Abbreviated # <<>> /\ Len(Abbreviated) \in {Unshared, Unshared + 1}
           /\ Abbreviated = SubSeq(last.frames, 1, Len(Abbreviated))
           /\ StackTrace(heap, last.ret) = MapGet(heap[last.err].data, stackKey).v

C22_Witness ==
    /\ RewrapCall /\ last.frames = S2 /\ InnerStack = S1
    /\ Abbreviated = <<"f2", "main">>
    /\ StackTrace(heap, last.ret) = S1

\* C29: a node built by Wrap, WrapD, New, Errorf or ErrorfD stores exactly
\* one stack entry; a full one is the capture of the call unchanged, an
\* abbreviated one is a non-empty, strictly shorter prefix of that capture.
C29_OneStackEntry ==
    (last.op \in {"Wrap", "WrapD", "New", "Errorf", "ErrorfD"} /\ last.ret # Nil)
        => LET d == heap[last.ret].data
           IN  /\ MapHas(d, stackKey) # MapHas(d, abbrStackKey)
               /\ MapHas(d, stackKey)
                     => MapGet(d, stackKey) = Iface("stack", last.frames)
               /\ MapHas(d, abbrStackKey)
                     => LET a == MapGet(d, abbrStackKey)
                        IN  /\ a.t = "stack" /\ a.v # <<>>
                            /\ Len(a.v) < Len(last.frames)
                            /\ a.v = SubSeq(last.frames, 1, Len(a.v))

C29_Witness ==
    /\ last.op = "WrapD" /\ last.ret # Nil
    /\ MapHas(heap[last.ret].data, abbrStackKey)
    /\ ~MapHas(heap[last.ret].data, stackKey)

----------------------------------------------------------------------------
(* The nil flag as cause: the calls and their arguments *)

MaxSentinelNodes == 3

RoomSentinel == Len(heap) <= MaxSentinelNodes

\* the cause arguments inside the package: the nil flag or the newest error
FlagCauses == {errNilFlag} \cup Newest

NextSentinel ==
    \/ RoomSentinel /\ CallPlain(<<"EOF">>)
    \/ \E err \in FlagCauses, f \in Stacks :
          RoomSentinel /\ CallWrap(err, <<"wrapped">>, <<>>, f)
    \/ \E err \in FlagCauses, f \in Stacks :
          RoomSentinel /\ CallWrapD(err, K1, <<"wrapped">>, <<>>, f)
    \/ \E err \in FlagCauses : RoomSentinel /\ CallWithMessage(err, <<"msg">>, <<>>)
    \/ \E err \in FlagCauses : RoomSentinel /\ CallWithMessageD(err, K1, <<"msg">>, <<>>)
    \/ \E err \in FlagCauses, f \in Stacks : RoomSentinel /\ CallWithStack(err, f)
    \/ \E err \in FlagCauses : RoomSentinel /\ CallWithData(err, K2)
    \/ \E e \in Public(heap) : CallError(e)

SpecSentinel == Init /\ [][NextSentinel]_vars

----------------------------------------------------------------------------
(* Claims on the nil flag *)

\* C23: a wrapping constructor given the nil flag as cause returns a node
\* whose stored cause is nil; no node has the nil flag as its cause, and the
\* text of the nil flag is in no Error() output.
C23_SentinelBecomesNil ==
    /\ (last.op \in WrappingCtors /\ last.err = errNilFlag)
          => /\ ~last.panic /\ last.ret \in Basics(heap)
             /\ heap[last.ret].err = Nil
    /\ \A n \in Basics(heap) : heap[n].err # errNilFlag
    /\ \A n \in Public(heap) :
          \A i \in DOMAIN Error(heap, n) : Error(heap, n)[i] # heap[errNilFlag].text[1]
    /\ last.op = "Error" => last.str = Error(heap, last.err)

C23_Witness ==
    /\ last.op = "WithStack" /\ last.err = errNilFlag
    /\ last.ret \in Basics(heap) /\ heap[last.ret].err = Nil
    /\ \E n \in Basics(heap) : n # last.ret /\ heap[n].err = Nil /\ heap[n].data = K2

----------------------------------------------------------------------------
(* Reserved and empty keys: the calls and their arguments *)

MaxKeysNodes == 3

\* the empty string as key
KeyEmpty == <<>>

\* a map that names the three reserved entries of a node
DX ==
    MakeMap((msgKey :> V3) @@ (stackKey :> V3) @@ (abbrStackKey :> V3) @@ (KeyK :> V1))

\* a map that holds the empty key
DE == MakeMap((KeyEmpty :> V1) @@ (KeyJ :> V2))

RoomKeys == Len(heap) <= MaxKeysNodes

NextKeys ==
    \/ RoomKeys /\ CallEmptyBasic
    \/ RoomKeys /\ CallNew(<<"error">>, S1)
    \/ RoomKeys /\ CallErrorfD(DX, <<"error">>, <<>>, S1)
    \/ \E err \in Newest : RoomKeys /\ CallWrapD(err, DX, <<"wrapped">>, <<>>, S2)
    \/ \E err \in Newest : RoomKeys /\ CallWithMessageD(err, DX, <<"msg">>, <<>>)
    \/ \E e \in Basics(heap) \cap Newest,
          k \in {msgKey, stackKey, abbrStackKey, KeyK, KeyEmpty} :
          RoomKeys /\ CallSetKeyVal(e, k, V3, S3)
    \/ \E e \in Basics(heap) \cap Newest, d \in {DX, DE} : CallSetData(e, d)
    \/ \E e \in Basics(heap), k \in {KeyK, KeyEmpty} : CallGetValue(e, k)

SpecKeys == Init /\ [][NextKeys]_vars

----------------------------------------------------------------------------
(* Claims on reserved and empty keys *)

\* the keys of the message and of the two kinds of stack
OwnKeys == {msgKey, stackKey, abbrStackKey}

\* C24: the message and the stack of a node never change after construction:
\* no call adds, overwrites or removes the message or stack entry of a node
\* that exists, and a data map given to WrapD, WithMessageD or ErrorfD leaves
\* the message and the stack of the node it builds as the call made them.
C24_MessageAndStackFixed ==
    [][/\ \A n \in Basics(heap), k \in OwnKeys :
            /\ MapHas(heap'[n].data, k) = MapHas(heap[n].data, k)
            /\ MapGet(heap'[n].data, k) = MapGet(heap[n].data, k)
       /\ (last'.op \in {"WrapD", "WithMessageD", "ErrorfD"} /\ last'.ret # Nil)
            => LET d == heap'[last'.ret].data
               IN  /\ MapGet(d, msgKey)
                        = Iface("string", formatMsg(last'.text, last'.args))
                   /\ \A k \in {stackKey, abbrStackKey} :
                        MapHas(d, k) => /\ last'.op # "WithMessageD"
                                        /\ MapGet(d, k).t = "stack"
                                        /\ MapGet(d, k).v
                                             = Prefix(last'.frames, Len(MapGet(d, k).v))
      ]_vars

C24_Witness ==
    /\ last.op = "SetData" /\ last.in = DX
    /\ MapGet(heap[last.err].data, KeyK) = V1
    /\ MapGet(heap[last.err].data, msgKey) = Iface("string", <<"wrapped">>)
    /\ MapGet(heap[last.err].data, abbrStackKey) = Iface("stack", <<"f2", "main">>)

\* C25 as stated: the key-taking operations complete for every key, the empty
\* string included: GetValue("") returns not-found, SetKeyVal("", v) and
\* SetData of a map that holds the key "" return without a panic.
C25_EmptyKeyTotal ==
    /\ (last.op \in {"GetValue", "SetKeyVal"} /\ last.key = KeyEmpty)
          => ~last.panic /\ ~last.found
    /\ (last.op = "SetData" /\ MapHas(last.in, KeyEmpty)) => ~last.panic

----------------------------------------------------------------------------
(* Claims on readers *)

\* the read operations of a node
Readers == {"Error", "Unwrap", "StackTrace", "GetValue", "GetAllData"}

\* C26 as stated: a read operation (Error, Unwrap, StackTrace, GetValue,
\* GetAllData) writes to no node, an empty Basic with a nil data map included,
\* so concurrent readers of a shared node never conflict.
C26_ReadersWriteNothing == [][last'.op \in Readers => heap' = heap]_vars

----------------------------------------------------------------------------
(* Claims on termination *)

\* whether Error() of e returns within fuel nested calls
RECURSIVE ErrorEnds(_, _, _)
ErrorEnds(h, e, fuel) ==
    IF fuel = 0 THEN FALSE
    ELSE CASE h[e].kind = "basic" ->
                h[e].err = Nil \/ ErrorEnds(h, h[e].err, fuel - 1)
           [] h[e].kind = "join" ->
                \A i \in DOMAIN h[e].errs : ErrorEnds(h, h[e].errs[i], fuel - 1)
           [] OTHER -> TRUE

\* whether the loop of Cause(err) ends within fuel rounds
RECURSIVE CauseEnds(_, _, _)
CauseEnds(h, err, fuel) ==
    IF err = Nil THEN TRUE
    ELSE IF fuel = 0 THEN FALSE
    ELSE LET c == As(h, err, "Wrapper")
         IN  IF c = Nil THEN TRUE
             ELSE IF Unwrap(h, c) = Nil THEN TRUE
             ELSE CauseEnds(h, Unwrap(h, c), fuel - 1)

\* C27 as stated: every traversal terminates on every graph built with the
\* public operations, Basic.Wrap included; here for Error and Cause: a walk
\* over more errors than the heap holds has come back to an error it has
\* visited, and neither walk keeps state that would stop it then.
C27_TraversalsTerminate ==
    \A e \in Public(heap) :
        /\ ErrorEnds(heap, e, Len(heap) + 1)
        /\ CauseEnds(heap, e, Len(heap) + 1)

----------------------------------------------------------------------------
(* The map GetAllData returns: the calls and their arguments *)

MaxAliasNodes == 3

\* the caller holds the map of the last GetAllData call
HoldsResult == last.op \in {"GetAllData", "WriteResult", "DeleteResult"}

\* the heap after a write to the held map: a node changes only when the map
\* is its data field
WriteThrough(m) ==
    IF last.ref = Nil THEN heap ELSE [heap EXCEPT ![last.ref].data = m]

\* d := e.GetAllData(); d[k] = v
CallWriteResult(k, v) ==
    /\ HoldsResult
    /\ heap' = WriteThrough(MapSet(last.out, k, v))
    /\ last' = [last EXCEPT !.op = "WriteResult", !.key = k, !.arg = v,
                            !.out = MapSet(last.out, k, v)]

\* d := e.GetAllData(); delete(d, k)
CallDeleteResult(k) ==
    /\ HoldsResult
    /\ heap' = WriteThrough(MapDel(last.out, k))
    /\ last' = [last EXCEPT !.op = "DeleteResult", !.key = k, !.arg = NilIface,
                            !.out = MapDel(last.out, k)]

RoomAlias == Len(heap) <= MaxAliasNodes

NextAlias ==
    \/ RoomAlias /\ CallEmptyBasic
    \/ \E d \in {DA, DB} : RoomAlias /\ CallWithData(errNilFlag, d)
    \/ \E err \in Newest : RoomAlias /\ CallWithData(err, DA)
    \/ \E err \in Newest : RoomAlias /\ CallWithMessage(err, <<"error2">>, <<>>)
    \/ \E o \in Oldest, n \in Newest : RoomAlias /\ CallJoin(<<o, n>>)
    \/ \E e \in Basics(heap) \cap Newest : CallSetData(e, DB)
    \/ \E e \in Basics(heap) : CallGetValue(e, KeyK)
    \/ \E e \in Basics(heap) : CallGetAllData(e)
    \/ \E k \in {KeyK, KeyJ} : CallWriteResult(k, V3)
    \/ CallDeleteResult(KeyK)

SpecAlias == Init /\ [][NextAlias]_vars

----------------------------------------------------------------------------
(* Claims on the map GetAllData returns *)

\* C30: GetAllData returns a map made by the call, the data field of no
\* node, and changes no node; a write to or a delete from the returned map
\* changes no node and so no later GetValue or GetAllData result; GetAllData
\* calls with only readers and such writes between them return equal maps.
C30_GetAllDataFresh ==
    [][/\ last'.op = "GetAllData"
            => /\ heap' = heap /\ last'.ref = Nil
               /\ last'.out = GetAllData(heap, last'.err)
       /\ last'.op \in {"WriteResult", "DeleteResult"} => heap' = heap
       /\ last'.op \in {"GetAllData", "GetValue", "WriteResult", "DeleteResult"}
            => \A e \in Basics(heap) :
                  /\ GetAllData(heap', e) = GetAllData(heap, e)
                  /\ \A k \in {KeyK, KeyJ} :
                        LET before == GetValue(heap, e, k)
                            after == GetValue(heap', e, k)
                        IN  before.val = after.val /\ before.found = after.found
      ]_vars

C30_Witness ==
    /\ last.op = "WriteResult" /\ last.key = KeyK
    /\ MapGet(last.out, KeyK) = V3
    /\ heap[last.err].err # Nil
    /\ MapGet(GetAllData(heap, last.err), KeyK) = V1

----------------------------------------------------------------------------
(* Extended rendering: Format with the verb 'v' and the flag '+'.  A text is
   the sequence of the strings written to the fmt.State *)

MaxFormatNodes == 3

\* the bytes of the keys in use, in ascending order
Alphabet ==
    <<"_", "a", "b", "c", "d", "e", "f", "g", "h", "i", "j", "k", "l", "m",
      "n", "o", "p", "q", "r", "s", "t", "u", "v", "w", "x", "y", "z">>

CharRank(c) == CHOOSE i \in DOMAIN Alphabet : Alphabet[i] = c

\* a < b on strings
RECURSIVE KeyLess(_, _)
KeyLess(a, b) ==
    IF a = <<>> THEN b # <<>>
    ELSE IF b = <<>> THEN FALSE
    ELSE IF a[1] = b[1] THEN KeyLess(Tail(a), Tail(b))
    ELSE CharRank(a[1]) < CharRank(b[1])

\* the pairs of a map as fmt prints them: key:value in key order, a space
\* between two pairs
RECURSIVE fmtPairs(_, _)
fmtPairs(d, keys) ==
    IF keys = {} THEN <<>>
    ELSE LET k == CHOOSE x \in keys : \A y \in keys \ {x} : KeyLess(x, y)
         IN  k \o <<":">> \o d.kv[k].v
               \o (IF keys = {k} THEN <<>> ELSE <<" ">>)
               \o fmtPairs(d, keys \ {k})

\* fmt.Fprintf(s, "%+v", d) for a KVPairs of strings
FmtMap(d) == <<"map[">> \o fmtPairs(d, DOMAIN d.kv) \o <<"]">>

\* func (s *stack) Format(st fmt.State, verb rune): every frame on a line of
\* its own
RECURSIVE stackFormat(_)
stackFormat(frames) ==
    IF frames = <<>> THEN <<>>
    ELSE <<"\n", Head(frames)>> \o stackFormat(Tail(frames))

\* func (e *Basic) Format(s fmt.State, verb rune), case 'v' with s.Flag('+');
\* a cause that is no Basic is printed by fmt with its Error() text
RECURSIVE Format(_, _)
Format(h, e) ==
    LET err == Unwrap(h, e)
        mOk == MapHas(h[e].data, msgKey)
        d == addMyData(h[e].data, EmptyMap)
        cause == IF err = Nil THEN <<>>
                 ELSE (IF h[err].kind = "basic" THEN Format(h, err) ELSE Error(h, err))
                        \o <<"\n">>
        msg == IF mOk THEN MapGet(h[e].data, msgKey).v ELSE <<>>
        data == IF DOMAIN d.kv = {} THEN <<>>
                ELSE (IF err # Nil \/ mOk THEN <<"\n\t">> ELSE <<>>)
                       \o <<"ERROR DATA: ">> \o FmtMap(d)
        stk == IF MapHas(h[e].data, stackKey)
               THEN <<"\n\tSTACK TRACE:">>
                      \o stackFormat(MapGet(h[e].data, stackKey).v)
               ELSE IF MapHas(h[e].data, abbrStackKey)
               THEN <<"\n\tSTACK TRACE (abbr.):">>
                      \o stackFormat(MapGet(h[e].data, abbrStackKey).v)
               ELSE <<>>
    IN  cause \o msg \o <<" >>>">> \o data \o stk

\* fmt.Sprintf("%+v", e)
CallFormat(e) ==
    /\ heap' = heap
    /\ last' = [Blank EXCEPT !.op = "Format", !.err = e, !.str = Format(heap, e)]

\* the map of TestWithMessageD
Dummy == MakeMap(<<"d", "u", "m", "m", "y">> :> Iface("string", <<"crash test">>))

RoomFormat == Len(heap) <= MaxFormatNodes

NextFormat ==
    \/ RoomFormat /\ CallPlain(<<"EOF">>)
    \/ RoomFormat /\ CallEmptyBasic
    \/ RoomFormat /\ CallNew(<<"error">>, S1)
    \/ \E err \in FlagCauses, d \in {NilMap, Dummy} :
          RoomFormat /\ CallWithMessageD(err, d, <<"data error without stack trace">>, <<>>)
    \/ \E err \in Newest : RoomFormat /\ CallWithData(err, D1)
    \/ \E err \in Newest : RoomFormat /\ CallWrap(err, <<"error2">>, <<>>, S2)
    \/ \E e \in Basics(heap) : CallFormat(e)

SpecFormat == Init /\ [][NextFormat]_vars

----------------------------------------------------------------------------
(* Claims on extended rendering *)

\* the sections that are present, with one newline between two of them
RECURSIVE JoinLines(_)
JoinLines(parts) ==
    IF parts = <<>> THEN <<>>
    ELSE IF Head(parts) = <<>> THEN JoinLines(Tail(parts))
    ELSE IF JoinLines(Tail(parts)) = <<>> THEN Head(parts)
    ELSE Head(parts) \o <<"\n">> \o JoinLines(Tail(parts))

\* the frames of a stack, one on a line
RECURSIVE FrameLines(_)
FrameLines(frames) ==
    IF frames = <<>> THEN <<>>
    ELSE IF Len(frames) = 1 THEN frames
    ELSE <<Head(frames), "\n">> \o FrameLines(Tail(frames))

\* the rendering the claim describes: cause, message, data section and stack
\* section in this order, nothing for an absent one
RECURSIVE Rendering(_, _)
Rendering(h, e) ==
    IF h[e].kind # "basic" THEN Error(h, e)
    ELSE LET d == addMyData(h[e].data, EmptyMap)
         IN  JoinLines(<<
                 IF h[e].err = Nil THEN <<>> ELSE Rendering(h, h[e].err),
                 IF MapHas(h[e].data, msgKey) THEN MapGet(h[e].data, msgKey).v ELSE <<>>,
                 IF DOMAIN d.kv = {} THEN <<>> ELSE <<"ERROR DATA: ">> \o FmtMap(d),
                 IF MapHas(h[e].data, stackKey)
                 THEN FrameLines(MapGet(h[e].data, stackKey).v)
                 ELSE IF MapHas(h[e].data, abbrStackKey)
                 THEN FrameLines(MapGet(h[e].data, abbrStackKey).v)
                 ELSE <<>> >>)

\* C28 as stated: the extended rendering of a node is the cause's extended
\* rendering, the message, the data section "ERROR DATA: <map>" and the stack
\* section, in this order with single newlines between them and nothing for
\* an absent one; a node with a message and data but no cause and no stack
\* renders as the message, a newline and "ERROR DATA: " followed by the map.
C28_ExtendedRendering ==
    last.op = "Format"
        => /\ last.str = Rendering(heap, last.err)
           /\ (/\ heap[last.err].err = Nil
               /\ heap[last.err].data
                    = MapSet(Dummy, msgKey,
                             Iface("string", <<"data error without stack trace">>)))
                 => last.str = <<"data error without stack trace", "\n",
                                 "ERROR DATA: ", "map[", "d", "u", "m", "m", "y",
                                 ":", "crash test", "]">>

====
